---------------------------- MODULE Spec2Model ----------------------------
(***************************************************************************)
(* A model of app.py, the ward-level PM2.5 dashboard for Howrah and        *)
(* Kolkata: the module-level load of the table gdf, the layout built from  *)
(* it, and the callback update_graph with the helper generate_plot.        *)
(*                                                                         *)
(* Representation.                                                         *)
(*   - a Python value that may be None is a sequence of length 0 or 1;     *)
(*   - a text is a sequence of one-character strings;                      *)
(*   - a date text "YYYY-MM-DD" is the sequence of its fields <<y, m, d>>, *)
(*     a parsed date is a record [year, month, day];                       *)
(*   - a WKT text is [type, coords]; a parsed polygon is [ring];           *)
(*   - a float is an exact fraction [nan, num, den] in lowest terms.       *)
(***************************************************************************)
EXTENDS Integers, Sequences, FiniteSets, Bags, TLC

VARIABLES
    artifact,   \* the file HWH-KOL_combined.pickle as found on disk
    pc,         \* position of the process: "start", "serving" or "aborted"
    gdf,        \* the process-wide table (rows in table order)
    app,        \* the Dash app: <<>> before dash.Dash(...), else <<[layout, callbacks]>>
    nloads,     \* how many times read_pickle has run in this process
    widgets,    \* per browser session: <<>> or <<[city, day]>>, the values of the two inputs
    outputs,    \* per browser session: <<>> or <<[figure, src, children]>>, what the page shows
    requests,   \* callback requests in flight: a bag of [session, city, day]
    responses,  \* callback responses in flight: a bag of [session, result]
    nrequests,  \* callback requests sent by the browsers so far
    nruns,      \* runs of update_graph so far
    out         \* a direct invocation of update_graph: <<>> or
                \* <<[city, day, filtered, result]>>, its arguments, the subset it
                \* handed to generate_plot and what it returned

vars == <<artifact, pc, gdf, app, nloads, widgets, outputs, requests, responses, nrequests, nruns, out>>

-----------------------------------------------------------------------------
(* Python values *)

None == <<>>
Some(x) == <<x>>

Range(s) == {s[i] : i \in 1..Len(s)}

RECURSIVE SeqSum(_)
SeqSum(s) == IF s = <<>> THEN 0 ELSE Head(s) + SeqSum(Tail(s))

Abs(n) == IF n < 0 THEN -n ELSE n

RECURSIVE GCD(_, _)
GCD(a, b) == IF b = 0 THEN a ELSE GCD(b, a % b)

(* floats, kept exact *)
NaN == [nan |-> TRUE, num |-> 0, den |-> 1]

Frac(n, d) ==
    IF d = 0 THEN NaN
    ELSE LET g == GCD(Abs(n), Abs(d))
             s == IF d < 0 THEN -1 ELSE 1
         IN [nan |-> FALSE, num |-> (s * n) \div g, den |-> (s * d) \div g]

FracAdd(a, b) ==
    IF a.nan \/ b.nan THEN NaN
    ELSE Frac(a.num * b.den + b.num * a.den, a.den * b.den)

RECURSIVE FracSum(_)
FracSum(s) == IF s = <<>> THEN Frac(0, 1) ELSE FracAdd(Head(s), FracSum(Tail(s)))

(* pandas Series.mean(): the sum over the count, and nan for an empty Series *)
mean(s) ==
    IF Len(s) = 0 THEN NaN
    ELSE LET t == FracSum(s) IN
         IF t.nan THEN NaN ELSE Frac(t.num, t.den * Len(s))

-----------------------------------------------------------------------------
(* datetime: the proleptic Gregorian calendar *)

IsLeap(y) == (y % 4 = 0) /\ ((y % 100 # 0) \/ (y % 400 = 0))

DaysInMonth(y, m) ==
    IF m = 2 THEN (IF IsLeap(y) THEN 29 ELSE 28)
    ELSE IF m \in {4, 6, 9, 11} THEN 30 ELSE 31

RECURSIVE DaysBeforeMonth(_, _)
DaysBeforeMonth(y, m) ==
    IF m = 1 THEN 0 ELSE DaysBeforeMonth(y, m - 1) + DaysInMonth(y, m - 1)

(* pandas NaT, the date that is none, and Timestamp.dayofyear, which is nan
   (equal to no day) for it *)
NaT == [year |-> 0, month |-> 0, day |-> 0]

dayofyear(date) ==
    IF date = NaT THEN -1 ELSE DaysBeforeMonth(date.year, date.month) + date.day

(* date + timedelta(days=n), n >= 0 *)
RECURSIVE AddDays(_, _)
AddDays(date, n) ==
    LET left == DaysInMonth(date.year, date.month) - date.day IN
    IF n <= left THEN [date EXCEPT !.day = date.day + n]
    ELSE AddDays(
            IF date.month = 12
            THEN [year |-> date.year + 1, month |-> 1, day |-> 1]
            ELSE [year |-> date.year, month |-> date.month + 1, day |-> 1],
            n - left - 1)

DigitChars == <<"0", "1", "2", "3", "4", "5", "6", "7", "8", "9">>

(* the decimal digits of n, zero-padded to the given width *)
RECURSIVE Digits(_, _)
Digits(n, width) ==
    IF width = 0 THEN <<>>
    ELSE Append(Digits(n \div 10, width - 1), DigitChars[(n % 10) + 1])

MonthAbbr ==
    << <<"J","a","n">>, <<"F","e","b">>, <<"M","a","r">>, <<"A","p","r">>,
       <<"M","a","y">>, <<"J","u","n">>, <<"J","u","l">>, <<"A","u","g">>,
       <<"S","e","p">>, <<"O","c","t">>, <<"N","o","v">>, <<"D","e","c">> >>

(* date.strftime('%b %d') and date.strftime('%b %d, %Y') *)
strftime_b_d(date) == MonthAbbr[date.month] \o <<" ">> \o Digits(date.day, 2)

strftime_b_d_Y(date) == strftime_b_d(date) \o <<",", " ">> \o Digits(date.year, 4)

(* str.endswith and str.split()[0] *)
endswith(text, suffix) ==
    /\ Len(text) >= Len(suffix)
    /\ SubSeq(text, Len(text) - Len(suffix) + 1, Len(text)) = suffix

RECURSIVE split_first(_)
split_first(text) ==
    IF text = <<>> \/ Head(text) = " " THEN <<>>
    ELSE <<Head(text)>> \o split_first(Tail(text))

EpochYear == 2023
SliderMin == 1
SliderMax == 365

Epoch == [year |-> EpochYear, month |-> 1, day |-> 1]

MarksStop == 365

-----------------------------------------------------------------------------
(* Lines 14-22: the load *)

Raise == [ok |-> FALSE, value |-> <<>>]
Return(v) == [ok |-> TRUE, value |-> v]

(* pd.read_pickle: raises when the file is missing or is no pickle of a table *)
read_pickle(file) ==
    IF file.state = "ok" THEN Return(file.frame) ELSE Raise

(* one Date text against format='%Y-%m-%d': a calendar date, in a year a
   nanosecond Timestamp can hold (the whole years 1678 to 2261) *)
IsDateText(text) ==
    /\ Len(text) = 3
    /\ text[1] \in 1678..2261
    /\ text[2] \in 1..12
    /\ text[3] \in 1..DaysInMonth(text[1], text[2])

(* errors='coerce': a text that does not match becomes NaT *)
to_datetime_coerce(column) ==
    Return([i \in 1..Len(column) |->
               IF IsDateText(column[i])
               THEN [year |-> column[i][1], month |-> column[i][2], day |-> column[i][3]]
               ELSE NaT])

(* pd.to_datetime(column, format='%Y-%m-%d'): errors='raise' is the default,
   so one text that does not match fails the whole call *)
to_datetime(column) ==
    IF \E i \in 1..Len(column) : ~IsDateText(column[i]) THEN Raise
    ELSE Return([i \in 1..Len(column) |->
                    [year |-> column[i][1], month |-> column[i][2], day |-> column[i][3]]])

(* shapely.wkt.loads of one text: a polygon whose ring is closed, else it raises *)
IsWKT(text) ==
    /\ text.type = "POLYGON"
    /\ Len(text.coords) >= 4
    /\ text.coords[1] = text.coords[Len(text.coords)]

(* column.apply(loads): the first text that fails ends the apply *)
apply_loads(column) ==
    IF \E i \in 1..Len(column) : ~IsWKT(column[i]) THEN Raise
    ELSE Return([i \in 1..Len(column) |-> [ring |-> column[i].coords]])

(* lines 15-22: df, its two converted columns, and gdf with the default
   RangeIndex of the frame *)
load(file) ==
    LET df == read_pickle(file) IN
    IF ~df.ok THEN Raise
    ELSE LET frame == df.value
             dates == to_datetime([i \in 1..Len(frame) |-> frame[i].Date])
         IN
         IF ~dates.ok THEN Raise
         ELSE LET geoms == apply_loads([i \in 1..Len(frame) |-> frame[i].geometry]) IN
              IF ~geoms.ok THEN Raise
              ELSE Return([i \in 1..Len(frame) |->
                      [index |-> i - 1,
                       City |-> frame[i].City,
                       WARD |-> frame[i].WARD,
                       Area |-> frame[i].Area,
                       Date |-> dates.value[i],
                       PM25 |-> frame[i].PM25,
                       geometry |-> geoms.value[i]]])

-----------------------------------------------------------------------------
(* Lines 56-60 and 63-114: the slider marks and the layout *)

(* {i: (date(2023, 1, 1) + timedelta(days=i - 1)).strftime('%b %d') for i in range(1, 365)} *)
month_marks ==
    [i \in SliderMin..(MarksStop - 1) |-> strftime_b_d(AddDays(Epoch, i - 1))]

(* the marks without the filter on the first of the month *)
unique_month_marks_every_day ==
    [key \in DOMAIN month_marks |-> split_first(month_marks[key])]

(* {key: value.split()[0] for key, value in month_marks.items() if value.endswith(' 01')} *)
unique_month_marks ==
    [key \in {k \in DOMAIN month_marks : endswith(month_marks[k], <<" ", "0", "1">>)} |->
        split_first(month_marks[key])]

(* Series.unique(): the distinct values in order of first appearance *)
RECURSIVE unique(_)
unique(s) ==
    IF s = <<>> THEN <<>>
    ELSE LET front == unique(SubSeq(s, 1, Len(s) - 1))
             last == s[Len(s)]
         IN IF last \in Range(front) THEN front ELSE Append(front, last)

(* app.layout: the dropdown and the slider.  gdf['City'].iloc[0] raises
   IndexError on a table without rows *)
layout(table) ==
    IF Len(table) = 0 THEN Raise
    ELSE Return([options |-> unique([i \in 1..Len(table) |-> table[i].City]),
                 city |-> Some(table[1].City),
                 min |-> SliderMin,
                 max |-> SliderMax,
                 marks |-> unique_month_marks,
                 day |-> 1])

(* the whole module-level script, lines 14-147: the state it leaves behind *)
module(file) ==
    LET table == load(file) IN
    IF ~table.ok
    THEN [pc |-> "aborted", gdf |-> <<>>, app |-> None]
    ELSE LET page == layout(table.value) IN
         IF ~page.ok
         THEN [pc |-> "aborted", gdf |-> table.value,
               app |-> Some([layout |-> None, callbacks |-> 0])]
         ELSE [pc |-> "serving", gdf |-> table.value,
               app |-> Some([layout |-> Some(page.value), callbacks |-> 1])]

-----------------------------------------------------------------------------
(* Lines 25-49: generate_plot *)

RangeColorMin == 20
RangeColorMax == 120
ColorMidpoint == 70

(* GeoSeries.centroid of one polygon: the area-weighted centroid of its ring *)
centroid(polygon) ==
    LET ring == polygon.ring
        n == Len(ring) - 1
        cross(i) == ring[i][1] * ring[i + 1][2] - ring[i + 1][1] * ring[i][2]
        twiceArea == SeqSum([i \in 1..n |-> cross(i)])
    IN [x |-> Frac(SeqSum([i \in 1..n |-> (ring[i][1] + ring[i + 1][1]) * cross(i)]),
                   3 * twiceArea),
        y |-> Frac(SeqSum([i \in 1..n |-> (ring[i][2] + ring[i + 1][2]) * cross(i)]),
                   3 * twiceArea)]

Min(S) == CHOOSE x \in S : \A y \in S : x <= y
Max(S) == CHOOSE x \in S : \A y \in S : x >= y

(* without range_color the colour axis takes the extremes of the plotted values *)
range_color_auto(z) ==
    IF Len(z) = 0 THEN <<0, 0>> ELSE <<Min(Range(z)), Max(Range(z))>>

(* range_color=[20, 120]: the colour axis is fixed, whatever is plotted *)
range_color(z) == <<RangeColorMin, RangeColorMax>>

(* px.choropleth_mapbox(...), update_traces(customdata, hovertemplate) and the
   two update_layout calls: the figure *)
fig_map(filtered_gdf) ==
    LET n == Len(filtered_gdf)
        centroids == [i \in 1..n |-> centroid(filtered_gdf[i].geometry)]
        z == [i \in 1..n |-> filtered_gdf[i].PM25]
    IN [data |->
          [geojson |-> [i \in 1..n |-> [id |-> filtered_gdf[i].index,
                                        geometry |-> filtered_gdf[i].geometry]],
           locations |-> [i \in 1..n |-> filtered_gdf[i].index],
           z |-> z,
           customdata |-> [i \in 1..n |-> <<filtered_gdf[i].WARD, filtered_gdf[i].Area,
                                            filtered_gdf[i].PM25>>],
           hovertemplate |-> "Ward, Area, PM2.5:.2f"],
        layout |->
          [coloraxis |-> [colorscale |-> "jet",
                          cmid |-> ColorMidpoint,
                          cmin |-> range_color(z)[1],
                          cmax |-> range_color(z)[2],
                          showscale |-> FALSE],
           mapbox |-> [style |-> "open-street-map",
                       zoom |-> Frac(106, 10),
                       center |-> [lat |-> mean([i \in 1..n |-> centroids[i].y]),
                                   lon |-> mean([i \in 1..n |-> centroids[i].x])]],
           opacity |-> Frac(8, 10),
           margin |-> [r |-> 5, t |-> 5, l |-> 10, b |-> 0]]]

(* a centre computed as sum / len would fail on an empty filtered_gdf *)
generate_plot_nonempty_only(filtered_gdf) ==
    IF Len(filtered_gdf) = 0 THEN Raise ELSE Return(fig_map(filtered_gdf))

(* generate_plot has no branch of its own: an empty filtered_gdf goes through
   the same calls, its centre being the mean of no centroids, and the figure
   is returned *)
generate_plot(filtered_gdf) == Return(fig_map(filtered_gdf))

(* How the map draws a figure: the polygons it shows, one per location that
   has a feature of that id, and the colour of each: the position of its
   value on the colour scale, the value being clamped to [cmin, cmax] *)
scale_position(value, cmin, cmax) ==
    IF cmax = cmin THEN Frac(1, 2)
    ELSE IF value <= cmin THEN Frac(0, 1)
    ELSE IF value >= cmax THEN Frac(1, 1)
    ELSE Frac(value - cmin, cmax - cmin)

drawn(fig) ==
    LET d == fig.data IN
    [i \in 1..Len(d.locations) |->
        [location |-> d.locations[i],
         shown |-> \E k \in 1..Len(d.geojson) : d.geojson[k].id = d.locations[i],
         colorscale |-> fig.layout.coloraxis.colorscale,
         color |-> scale_position(d.z[i], fig.layout.coloraxis.cmin,
                                  fig.layout.coloraxis.cmax),
         hover |-> d.customdata[i]]]

-----------------------------------------------------------------------------
(* Lines 124-147: update_graph *)

(* gdf['City'] == selected_city, one row: a comparison with None is False *)
city_eq(value, selected_city) ==
    selected_city # None /\ value = selected_city[1]

(* frame[mask]: the rows whose mask is True, in table order, each with its index *)
RECURSIVE boolean_index(_, _)
boolean_index(table, mask) ==
    IF table = <<>> THEN <<>>
    ELSE (IF Head(mask) THEN <<Head(table)>> ELSE <<>>)
         \o boolean_index(Tail(table), Tail(mask))

(* the mask without the day, and the mask with | for & *)
filtered_data_city_only(table, selected_city, selected_day) ==
    boolean_index(table, [i \in 1..Len(table) |-> city_eq(table[i].City, selected_city)])

filtered_data_either(table, selected_city, selected_day) ==
    boolean_index(table,
        [i \in 1..Len(table) |->
            \/ city_eq(table[i].City, selected_city)
            \/ dayofyear(table[i].Date) = selected_day])

(* line 125:
   gdf[(gdf['City'] == selected_city) & (gdf['Date'].dt.dayofyear == selected_day)] *)
filtered_data(table, selected_city, selected_day) ==
    boolean_index(table,
        [i \in 1..Len(table) |->
            /\ city_eq(table[i].City, selected_city)
            /\ dayofyear(table[i].Date) = selected_day])

(* lines 129-143: the colour bar of a ScalarMappable(cmap, norm), saved as PNG
   and wrapped into a data URI *)
colorbar_img_str ==
    [scheme |-> "data:image/png;base64,",
     image |-> [cmap |-> "jet",
                vmin |-> RangeColorMin,
                vmax |-> RangeColorMax,
                extend |-> "both",
                orientation |-> "vertical",
                label |-> "PM 2.5(µg/m3)",
                axes_visible |-> FALSE]]

(* the offset without the - 1 *)
selected_date_zero_indexed(selected_day) ==
    strftime_b_d_Y(AddDays(Epoch, selected_day))

(* line 145:
   (date(2023, 1, 1) + timedelta(days=selected_day - 1)).strftime('%b %d, %Y') *)
selected_date(selected_day) ==
    strftime_b_d_Y(AddDays(Epoch, selected_day - 1))

(* the three outputs of the callback, returned together (line 147) *)
callback_return(fig, src, children) ==
    [figure |-> [data |-> fig.data, layout |-> fig.layout],
     src |-> src,
     children |-> children]

(* the label taken from the slider's initial value instead of selected_day *)
update_graph_label_of_default(table, selected_city, selected_day) ==
    LET filtered == filtered_data(table, selected_city, selected_day)
        fig == generate_plot(filtered)
    IN IF ~fig.ok THEN Raise
       ELSE Return(callback_return(fig.value, colorbar_img_str, selected_date(1)))

(* the legend normalised to the extremes of the subset instead of [20, 120] *)
update_graph_legend_of_subset(table, selected_city, selected_day) ==
    LET filtered == filtered_data(table, selected_city, selected_day)
        fig == generate_plot(filtered)
        extremes == range_color_auto([i \in 1..Len(filtered) |-> filtered[i].PM25])
    IN IF ~fig.ok THEN Raise
       ELSE Return(callback_return(fig.value,
                     [colorbar_img_str EXCEPT !.image.vmin = extremes[1],
                                              !.image.vmax = extremes[2]],
                     selected_date(selected_day)))

update_graph(table, selected_city, selected_day) ==
    LET filtered == filtered_data(table, selected_city, selected_day)
        fig == generate_plot(filtered)
    IN IF ~fig.ok THEN Raise
       ELSE Return(callback_return(fig.value, colorbar_img_str,
                                   selected_date(selected_day)))

-----------------------------------------------------------------------------
(* Bounds and inputs *)

MaxRows == 2        \* rows of a table drawn for a direct call
MaxRequests == 4    \* callback requests the browsers send in one run

Sessions == {"u1", "u2"}

Cities == {"Howrah", "Kolkata"}
Wards == {1, 2}

Square(x, y) ==
    [type |-> "POLYGON",
     coords |-> << <<x, y>>, <<x + 2, y>>, <<x + 2, y + 1>>, <<x, y + 1>>, <<x, y>> >>]

WardWKT(city, ward) == Square(88 + 2 * ward, IF city = "Howrah" THEN 22 ELSE 24)

Row(city, ward, date, pm) ==
    [City |-> city, WARD |-> ward,
     Area |-> IF ward = 1 THEN "North" ELSE "South",
     Date |-> date, PM25 |-> pm, geometry |-> WardWKT(city, ward)]

File(frame) == [state |-> "ok", frame |-> frame]

SeqsUpTo(S, n) == UNION {[1..k -> S] : k \in 0..n}

(* tables for the filter: two cities, two wards, a day in two years and
   another day *)
FilterRows ==
    {Row(c, w, d, 70) : c \in Cities, w \in Wards,
                        d \in {<<2023, 2, 14>>, <<2024, 2, 14>>, <<2023, 1, 1>>}}

(* tables for the colour: one city and day, values inside and outside the range *)
ColourRows ==
    {Row("Kolkata", w, <<2023, 2, 14>>, pm) : w \in Wards,
                                               pm \in {10, 20, 45, 120, 150, 1000}}

(* the table every day of the slider is tried on *)
CalendarFile ==
    File(<< Row("Kolkata", 1, <<2023, 2, 14>>, 70), Row("Kolkata", 2, <<2023, 12, 31>>, 70),
            Row("Howrah", 1, <<2024, 12, 31>>, 70) >>)

CallFiles ==
    {File(f) : f \in SeqsUpTo(FilterRows, MaxRows)}
    \cup {File(f) : f \in SeqsUpTo(ColourRows, MaxRows)}
    \cup {CalendarFile}

CityInputs == {None, Some("Howrah"), Some("Kolkata"), Some("Delhi")}

DayInputs(file) ==
    IF file = CalendarFile THEN SliderMin..(SliderMax + 1) ELSE {1, 45, SliderMax + 1}

(* files for the running app: a good one, and the ways a file can be bad *)
GoodFile ==
    File(<< Row("Kolkata", 1, <<2023, 1, 1>>, 150), Row("Howrah", 1, <<2023, 2, 14>>, 10),
            Row("Kolkata", 1, <<2023, 2, 14>>, 70) >>)

BadFiles ==
    { [state |-> "missing", frame |-> <<>>],
      [state |-> "corrupt", frame |-> <<>>],
      File(<<>>),
      File(<< Row("Kolkata", 1, <<2023, 1, 1>>, 70), Row("Kolkata", 2, <<2023, 2, 30>>, 70) >>),
      File(<< Row("Kolkata", 1, <<2023, 1, 1>>, 70), Row("Kolkata", 2, <<14, 2, 2023>>, 70) >>),
      File(<< Row("Kolkata", 1, <<2023, 1, 1>>, 70), Row("Kolkata", 2, <<2023, 2>>, 70) >>),
      File(<< Row("Kolkata", 1, <<2023, 1, 1>>, 70),
              [Row("Kolkata", 2, <<2023, 1, 1>>, 70) EXCEPT !.geometry.type = "POLYGN"] >>),
      File(<< [Row("Kolkata", 1, <<2023, 1, 1>>, 70) EXCEPT
                  !.geometry.coords = << <<0, 0>>, <<1, 0>>, <<1, 1>> >>],
              Row("Kolkata", 2, <<2023, 1, 1>>, 70) >>) }

AppFiles == {GoodFile} \cup BadFiles

(* the positions the slider is moved to, among its 365 *)
SliderDays == {1, 45}

-----------------------------------------------------------------------------
(* The state machine *)

InitWith(files) ==
    /\ artifact \in files
    /\ pc = "start"
    /\ gdf = <<>>
    /\ app = None
    /\ nloads = 0
    /\ widgets = [s \in Sessions |-> None]
    /\ outputs = [s \in Sessions |-> None]
    /\ requests = EmptyBag
    /\ responses = EmptyBag
    /\ nrequests = 0
    /\ nruns = 0
    /\ out = None

Init == InitWith(AppFiles)

InitCall == InitWith(CallFiles)

(* the process starts: the module-level script runs once, to its end or to
   the first exception *)
Startup ==
    /\ pc = "start"
    /\ LET m == module(artifact) IN
        /\ pc' = m.pc
        /\ gdf' = m.gdf
        /\ app' = m.app
    /\ nloads' = nloads + 1
    /\ UNCHANGED <<artifact, widgets, outputs, requests, responses, nrequests, nruns, out>>

Send(s, city, day) ==
    /\ nrequests < MaxRequests
    /\ requests' = requests (+) SetToBag({[session |-> s, city |-> city, day |-> day]})
    /\ nrequests' = nrequests + 1

(* a browser opens the page: the widgets take the layout's values and Dash
   fires the callback once with them *)
PageLoad(s) ==
    /\ pc = "serving"
    /\ widgets[s] = None
    /\ LET page == app[1].layout[1] IN
        /\ widgets' = [widgets EXCEPT ![s] = Some([city |-> page.city, day |-> page.day])]
        /\ Send(s, page.city, page.day)
    /\ UNCHANGED <<artifact, pc, gdf, app, nloads, outputs, responses, nruns, out>>

(* the user picks another city, or clears the dropdown *)
ChangeCity(s, city) ==
    /\ pc = "serving"
    /\ widgets[s] # None
    /\ city \in {None} \cup {Some(c) : c \in Range(app[1].layout[1].options)}
    /\ city # widgets[s][1].city
    /\ widgets' = [widgets EXCEPT ![s] = Some([city |-> city, day |-> widgets[s][1].day])]
    /\ Send(s, city, widgets[s][1].day)
    /\ UNCHANGED <<artifact, pc, gdf, app, nloads, outputs, responses, nruns, out>>

(* the user moves the slider *)
ChangeDay(s, day) ==
    /\ pc = "serving"
    /\ widgets[s] # None
    /\ day \in app[1].layout[1].min..app[1].layout[1].max
    /\ day # widgets[s][1].day
    /\ widgets' = [widgets EXCEPT ![s] = Some([city |-> widgets[s][1].city, day |-> day])]
    /\ Send(s, widgets[s][1].city, day)
    /\ UNCHANGED <<artifact, pc, gdf, app, nloads, outputs, responses, nruns, out>>

(* a run that filters the shared table in place *)
ServeInPlace(r) ==
    /\ pc = "serving"
    /\ BagIn(r, requests)
    /\ app[1].callbacks = 1
    /\ requests' = requests (-) SetToBag({r})
    /\ responses' = responses (+)
          SetToBag({[session |-> r.session, result |-> update_graph(gdf, r.city, r.day)]})
    /\ nruns' = nruns + 1
    /\ gdf' = filtered_data(gdf, r.city, r.day)
    /\ UNCHANGED <<artifact, pc, app, nloads, widgets, outputs, nrequests, out>>

(* the server answers one request: one run of update_graph on the table *)
Serve(r) ==
    /\ pc = "serving"
    /\ BagIn(r, requests)
    /\ app[1].callbacks = 1
    /\ requests' = requests (-) SetToBag({r})
    /\ responses' = responses (+)
          SetToBag({[session |-> r.session, result |-> update_graph(gdf, r.city, r.day)]})
    /\ nruns' = nruns + 1
    /\ UNCHANGED <<artifact, pc, gdf, app, nloads, widgets, outputs, nrequests, out>>

(* the browser receives one response and sets the three outputs from it; a
   failed callback leaves the page as it is *)
Deliver(m) ==
    /\ BagIn(m, responses)
    /\ responses' = responses (-) SetToBag({m})
    /\ outputs' = IF m.result.ok
                  THEN [outputs EXCEPT ![m.session] = Some(m.result.value)]
                  ELSE outputs
    /\ UNCHANGED <<artifact, pc, gdf, app, nloads, widgets, requests, nrequests, nruns, out>>

(* update_graph invoked once with any two arguments *)
Call(city, day) ==
    /\ pc = "serving"
    /\ out = None
    /\ out' = Some([city |-> city, day |-> day,
                    filtered |-> filtered_data(gdf, city, day),
                    result |-> update_graph(gdf, city, day)])
    /\ UNCHANGED <<artifact, pc, gdf, app, nloads, widgets, outputs, requests, responses,
                   nrequests, nruns>>

Next ==
    \/ Startup
    \/ \E s \in Sessions : PageLoad(s)
    \/ \E s \in Sessions, city \in CityInputs : ChangeCity(s, city)
    \/ \E s \in Sessions, day \in SliderDays : ChangeDay(s, day)
    \/ \E r \in BagToSet(requests) : Serve(r)
    \/ \E m \in BagToSet(responses) : Deliver(m)

NextCall ==
    \/ Startup
    \/ \E city \in CityInputs, day \in DayInputs(artifact) : Call(city, day)

Spec == Init /\ [][Next]_vars

SpecCall == InitCall /\ [][NextCall]_vars

-----------------------------------------------------------------------------
(* What the claims are stated with: the calendar of a year as a table of
   cumulative month lengths, written out independently of the operators above *)

CumDays == <<0, 31, 59, 90, 120, 151, 181, 212, 243, 273, 304, 334, 365>>

ClaimDayOfYear(date) ==
    CumDays[date.month] + date.day
    + (IF date.month > 2 /\ date.year % 4 = 0
          /\ (date.year % 100 # 0 \/ date.year % 400 = 0) THEN 1 ELSE 0)

(* the label of day d of 2023, d in 1..365 *)
ClaimLabel(d) ==
    LET m == CHOOSE k \in 1..12 : CumDays[k] < d /\ d <= CumDays[k + 1] IN
    MonthAbbr[m] \o <<" ">> \o Digits(d - CumDays[m], 2) \o <<",", " ", "2", "0", "2", "3">>

(* the positions of the table's records of a city and day *)
ClaimMatches(table, city, day) ==
    {i \in 1..Len(table) :
        Some(table[i].City) = city /\ ClaimDayOfYear(table[i].Date) = day}

Called == out # None
TheCall == out[1]

-----------------------------------------------------------------------------
(* C1: the subset update_graph hands to generate_plot holds exactly the
   table's records of the selected city and day: none is left out, none is
   added, and they keep their table order and their index; the figure's
   locations are those indices. *)
C1_FilterExact ==
    Called =>
        LET sub == TheCall.filtered
            hits == ClaimMatches(gdf, TheCall.city, TheCall.day)
        IN /\ Len(sub) = Cardinality(hits)
           /\ \A k \in 1..Len(sub) : sub[k].index + 1 \in hits /\ sub[k] = gdf[sub[k].index + 1]
           /\ \A k \in 1..(Len(sub) - 1) : sub[k].index < sub[k + 1].index
           /\ TheCall.result.ok
           /\ TheCall.result.value.figure.data.locations = [k \in 1..Len(sub) |-> sub[k].index]

C1_Witness ==
    /\ Called
    /\ Len(gdf) = 2
    /\ Len(TheCall.filtered) = 1
    /\ TheCall.filtered[1].index = 1
    /\ TheCall.city = Some("Kolkata") /\ TheCall.day = 45

-----------------------------------------------------------------------------
(* C2 *)

WardsOf(table, city) ==
    {table[i].WARD : i \in {j \in 1..Len(table) : Some(table[j].City) = city}}

WardsOn(table, city, day) ==
    {table[i].WARD : i \in ClaimMatches(table, city, day)}

OnePerTriple(table) ==
    \A i, j \in 1..Len(table) :
        (/\ table[i].City = table[j].City
         /\ table[i].WARD = table[j].WARD
         /\ table[i].Date = table[j].Date) => i = j

OneYear(table) ==
    \A i, j \in 1..Len(table) : table[i].Date.year = table[j].Date.year

OnePerWard(sub, wards) ==
    /\ \A w \in wards : Cardinality({k \in 1..Len(sub) : sub[k].WARD = w}) = 1
    /\ \A k \in 1..Len(sub) : sub[k].WARD \in wards

(* C2 as stated: in a table with at most one record per (city, ward, date),
   for a (city, day) pair present in it the filter returns exactly one record
   per ward of that city, as many records (and polygons) as the city has wards. *)
C2_AsStated ==
    (/\ Called
     /\ OnePerTriple(gdf)
     /\ ClaimMatches(gdf, TheCall.city, TheCall.day) # {})
    => /\ OnePerWard(TheCall.filtered, WardsOf(gdf, TheCall.city))
       /\ Len(TheCall.filtered) = Cardinality(WardsOf(gdf, TheCall.city))
       /\ Len(drawn(TheCall.result.value.figure)) = Cardinality(WardsOf(gdf, TheCall.city))

(* C2, amended: in a table with at most one record per (city, ward, date)
   whose dates all lie in one calendar year, the filter returns exactly one
   record for each ward of the city that has a record on that day and none
   for the others, so the subset and the polygons are as many as those wards;
   as many as the city's wards when every ward of the city has a record on
   that day. *)
C2_OnePerWardOfTheDay ==
    (/\ Called
     /\ OnePerTriple(gdf)
     /\ OneYear(gdf)
     /\ ClaimMatches(gdf, TheCall.city, TheCall.day) # {})
    => LET here == WardsOn(gdf, TheCall.city, TheCall.day)
           polygons == drawn(TheCall.result.value.figure)
       IN /\ OnePerWard(TheCall.filtered, here)
          /\ Len(TheCall.filtered) = Cardinality(here)
          /\ Len(polygons) = Cardinality(here)
          /\ \A k \in 1..Len(polygons) : polygons[k].shown
          /\ here = WardsOf(gdf, TheCall.city)
                => Len(polygons) = Cardinality(WardsOf(gdf, TheCall.city))

C2_Witness ==
    /\ Called
    /\ OnePerTriple(gdf) /\ OneYear(gdf)
    /\ TheCall.city = Some("Kolkata") /\ TheCall.day = 45
    /\ WardsOf(gdf, TheCall.city) = {1, 2}
    /\ Len(TheCall.filtered) = 2
    /\ Len(drawn(TheCall.result.value.figure)) = 2

-----------------------------------------------------------------------------
(* C3: for a (city, day) pair without a matching record (an unknown city,
   no city, day 366) the filter gives an empty subset, generate_plot returns
   a figure without polygons, its centre being the mean of no centroids, and
   update_graph returns its three outputs. *)
C3_EmptySubsetRenders ==
    (Called /\ ClaimMatches(gdf, TheCall.city, TheCall.day) = {})
    => /\ TheCall.filtered = <<>>
       /\ TheCall.result.ok
       /\ drawn(TheCall.result.value.figure) = <<>>
       /\ TheCall.result.value.figure.data.geojson = <<>>
       /\ TheCall.result.value.figure.layout.mapbox.center = [lat |-> NaN, lon |-> NaN]
       /\ DOMAIN TheCall.result.value = {"figure", "src", "children"}

C3_Witness ==
    /\ Called
    /\ Len(gdf) = 2
    /\ TheCall.city = Some("Delhi")
    /\ TheCall.day = SliderMax + 1
    /\ TheCall.result.ok
    /\ drawn(TheCall.result.value.figure) = <<>>

-----------------------------------------------------------------------------
(* C4: for every day d of the slider, 1..365, the label is the date d - 1
   days after January 1, 2023, as "Mon DD, YYYY": day 1 is Jan 01, 2023, day
   45 Feb 14, 2023, day 365 Dec 31, 2023; the label lies in 2023 and no other
   day of the slider has the same label. *)
SliderLabels == [d \in SliderMin..SliderMax |-> selected_date(d)]

C4_DateLabel ==
    (Called /\ TheCall.day \in SliderMin..SliderMax)
    => LET label == TheCall.result.value.children IN
       /\ label = ClaimLabel(TheCall.day)
       /\ SubSeq(label, 9, 12) = <<"2", "0", "2", "3">>
       /\ TheCall.day = 1
             => label = <<"J","a","n"," ","0","1",","," ","2","0","2","3">>
       /\ TheCall.day = 45
             => label = <<"F","e","b"," ","1","4",","," ","2","0","2","3">>
       /\ TheCall.day = 365
             => label = <<"D","e","c"," ","3","1",","," ","2","0","2","3">>
       /\ \A d \in (SliderMin..SliderMax) \ {TheCall.day} : SliderLabels[d] # label

C4_Witness ==
    /\ Called
    /\ TheCall.day = SliderMax
    /\ TheCall.result.value.children = <<"D","e","c"," ","3","1",","," ","2","0","2","3">>

-----------------------------------------------------------------------------
(* C8: every record of the subset is drawn, and its colour is the position
   on the jet scale of its PM2.5 value clamped to [20, 120], whatever the
   other values of the subset: below 20 the colour of 20, above 120 the
   colour of 120. *)
ClaimClamp(v) == IF v < 20 THEN 20 ELSE IF v > 120 THEN 120 ELSE v

C8_ClampedColour ==
    Called =>
        LET fig == TheCall.result.value.figure
            polygons == drawn(fig)
        IN /\ Len(polygons) = Len(TheCall.filtered)
           /\ fig.layout.coloraxis.cmin = 20
           /\ fig.layout.coloraxis.cmax = 120
           /\ \A k \in 1..Len(polygons) :
                /\ polygons[k].shown
                /\ polygons[k].colorscale = "jet"
                /\ polygons[k].color = Frac(ClaimClamp(TheCall.filtered[k].PM25) - 20, 100)
           /\ \A k, l \in 1..Len(polygons) :
                ClaimClamp(TheCall.filtered[k].PM25) = ClaimClamp(TheCall.filtered[l].PM25)
                    => polygons[k].color = polygons[l].color

C8_Witness ==
    /\ Called
    /\ Len(TheCall.filtered) = 2
    /\ TheCall.filtered[1].PM25 = 150
    /\ TheCall.filtered[2].PM25 = 1000
    /\ drawn(TheCall.result.value.figure)[1].color = Frac(1, 1)
    /\ drawn(TheCall.result.value.figure)[2].color = Frac(1, 1)

-----------------------------------------------------------------------------
(* C5: every request a browser sends is answered by exactly one run of
   update_graph, and what a page shows is always the three outputs of one
   run: a figure of the records of some (city, day), the legend, and the date
   label of that same day; before the first response it shows none of them. *)
ClaimOneRun(shown) ==
    \E city \in CityInputs, day \in SliderMin..SliderMax :
        /\ Range(shown.figure.data.locations)
              = {i - 1 : i \in ClaimMatches(gdf, city, day)}
        /\ Len(shown.figure.data.locations) = Cardinality(ClaimMatches(gdf, city, day))
        /\ shown.children = ClaimLabel(day)

C5_OneRunThreeOutputs ==
    /\ nruns + BagCardinality(requests) = nrequests
    /\ BagCardinality(responses) <= nruns
    /\ \A s \in Sessions :
          outputs[s] # None =>
             /\ DOMAIN outputs[s][1] = {"figure", "src", "children"}
             /\ ClaimOneRun(outputs[s][1])

C5_Witness ==
    /\ nrequests = 3 /\ nruns = 3
    /\ widgets["u1"] = Some([city |-> Some("Kolkata"), day |-> 45])
    /\ outputs["u1"] # None
    /\ outputs["u1"][1].children = ClaimLabel(45)
    /\ outputs["u1"][1].figure.data.locations = <<2>>
    /\ outputs["u2"] # None
    /\ outputs["u2"][1].children = ClaimLabel(1)

-----------------------------------------------------------------------------
(* C6: once the app serves, no step of any session's request (its sending,
   the run of update_graph and generate_plot, its delivery) changes gdf, and
   gdf is the table that was loaded from the file. *)
C6_TableNeverWritten ==
    /\ [][pc = "serving" => gdf' = gdf]_vars
    /\ [](pc = "serving" => gdf = load(artifact).value)

C6_Witness ==
    /\ pc = "serving"
    /\ nruns = 3
    /\ outputs["u1"] # None /\ outputs["u1"][1].figure.data.locations = <<2>>
    /\ outputs["u2"] # None /\ outputs["u2"][1].figure.data.locations = <<0>>
    /\ gdf = load(artifact).value
    /\ Len(gdf) = 3

-----------------------------------------------------------------------------
(* C7: every response, and so every page, carries the same legend: the
   colour bar of jet over [20, 120] extended at both ends, whatever city and
   day the run was for. *)
ClaimLegend ==
    [scheme |-> "data:image/png;base64,",
     image |-> [cmap |-> "jet", vmin |-> 20, vmax |-> 120, extend |-> "both",
                orientation |-> "vertical", label |-> "PM 2.5(µg/m3)",
                axes_visible |-> FALSE]]

C7_LegendFixed ==
    /\ \A m \in BagToSet(responses) : m.result.ok => m.result.value.src = ClaimLegend
    /\ \A s \in Sessions : outputs[s] # None => outputs[s][1].src = ClaimLegend

C7_Witness ==
    /\ outputs["u1"] # None /\ outputs["u2"] # None
    /\ outputs["u1"][1].figure # outputs["u2"][1].figure
    /\ outputs["u1"][1].children # outputs["u2"][1].children
    /\ outputs["u1"][1].src = outputs["u2"][1].src
    /\ \E m \in BagToSet(responses) : m.result.ok /\ m.result.value.src = outputs["u1"][1].src

-----------------------------------------------------------------------------
(* C9: the load runs once; when the file is missing or no table, or one Date
   is no calendar date written year-month-day, or one geometry is no polygon,
   the process aborts with no table, no app and no callback, and nothing is
   ever requested or served; a process that serves holds every row of the
   file. *)
ClaimIsDate(text) ==
    /\ Len(text) = 3
    /\ text[1] >= 1
    /\ text[2] \in 1..12
    /\ text[3] >= 1
    /\ text[3] <= CumDays[text[2] + 1] - CumDays[text[2]]
                  + (IF text[2] = 2 /\ text[1] % 4 = 0
                        /\ (text[1] % 100 # 0 \/ text[1] % 400 = 0) THEN 1 ELSE 0)

ClaimIsPolygon(wkt) ==
    /\ wkt.type = "POLYGON"
    /\ Len(wkt.coords) >= 4
    /\ Head(wkt.coords) = wkt.coords[Len(wkt.coords)]

ClaimBadFile(file) ==
    \/ file.state # "ok"
    \/ \E i \in 1..Len(file.frame) :
          ~ClaimIsDate(file.frame[i].Date) \/ ~ClaimIsPolygon(file.frame[i].geometry)

C9_StartupAllOrNothing ==
    /\ nloads <= 1
    /\ pc # "start" => nloads = 1
    /\ (pc # "start" /\ ClaimBadFile(artifact)) =>
          /\ pc = "aborted"
          /\ gdf = <<>>
          /\ app = None
          /\ nrequests = 0 /\ nruns = 0
          /\ requests = EmptyBag /\ responses = EmptyBag
          /\ \A s \in Sessions : widgets[s] = None /\ outputs[s] = None
    /\ pc = "serving" =>
          /\ ~ClaimBadFile(artifact)
          /\ app # None /\ app[1].callbacks = 1
          /\ Len(gdf) = Len(artifact.frame)
          /\ \A i \in 1..Len(gdf) :
                <<gdf[i].Date.year, gdf[i].Date.month, gdf[i].Date.day>>
                    = artifact.frame[i].Date

C9_Witness ==
    /\ pc = "aborted"
    /\ artifact.state = "ok"
    /\ Len(artifact.frame) = 2
    /\ ClaimIsDate(artifact.frame[1].Date)
    /\ ~ClaimIsDate(artifact.frame[2].Date)
    /\ app = None
    /\ nloads = 1

-----------------------------------------------------------------------------
(* C10: the slider of the served layout runs from 1 to 365 and starts at 1,
   and its marks are the first days of the twelve months of 2023, the days
   1, 32, 60, 91, 121, 152, 182, 213, 244, 274, 305 and 335, each with the
   abbreviation of its month. *)
ClaimMarkDays == <<1, 32, 60, 91, 121, 152, 182, 213, 244, 274, 305, 335>>

ClaimMarks ==
    [key \in Range(ClaimMarkDays) |->
        MonthAbbr[CHOOSE m \in 1..12 : ClaimMarkDays[m] = key]]

=============================================================================
